---- MODULE Spec2Model ----
(***************************************************************************)
(* A model of mastermind.cpp: the Mastermind engine (constructor, guess,   *)
(* turnsLeft, peer) and the console shell in main.                         *)
(*                                                                         *)
(* Arrays of the source are indexed 0..3; the model indexes them 1..4, so  *)
(* model position k is source position k-1.                                *)
(*                                                                         *)
(* TLC integers are 32 bits wide and signed, so a uint32_t whose value may *)
(* reach 2^31 or more (the colour count and the tries counter) is kept as  *)
(* its two 16-bit halves [hi, lo], value hi * 2^16 + lo.  Peg values and   *)
(* key counts are only compared for equality or counted up to 16 and are   *)
(* kept as plain naturals.                                                 *)
(***************************************************************************)
EXTENDS Integers, Sequences, FiniteSets, TLC

VARIABLES
    pc,               \* position of the caller: main's control point, or "api"
    argv,             \* main: the arguments after argv[0], each a sequence of characters
    peg_colors,       \* main: uint32_t peg_colors
    tries_allowed,    \* main: uint32_t tries_allowed
    guess,            \* main: array<uint32_t, PEG_SLOTS> guess
    black_keys,       \* main: uint32_t black_keys
    white_keys,       \* main: uint32_t white_keys
    cin_ok,           \* state of std::cin: TRUE while no extraction has failed
    u_init,           \* the function-local static u has been initialised
    u_b,              \* the upper bound held by the static distribution u
    m_hidden_pegs,    \* Mastermind::m_hidden_pegs
    m_peg_colors,     \* Mastermind::m_peg_colors
    m_tries_allowed,  \* Mastermind::m_tries_allowed
    marks,            \* the locals of the last guess call: black_matched, white_matched, white_from
    op,               \* the last engine call: its name and its return value
    calls,            \* number of guess calls made on the current engine
    out,              \* main: the end-of-game lines written to std::cout
    matched           \* history: some pegs passed to guess equalled the hidden pegs

vars == <<pc, argv, peg_colors, tries_allowed, guess, black_keys, white_keys,
          cin_ok, u_init, u_b, m_hidden_pegs, m_peg_colors, m_tries_allowed,
          marks, op, calls, out, matched>>

---------------------------------------------------------------------------
(* Program constants *)

PEG_SLOTS == 4
MIN_PEG_COLORS == 2
MAX_PEG_COLORS == MIN_PEG_COLORS + 8
MIN_TRIES_ALLOWED == 2
DEFAULT_COLORS == 8
DEFAULT_TRIES == 10

(* Bounds of the model *)

MaxVal == 3        \* SpecScore: peg values are 0..MaxVal

Slots == 1..PEG_SLOTS

---------------------------------------------------------------------------
(* uint32_t arithmetic on 16-bit halves *)

HALF == 65536

U32(n) == [hi |-> (n \div HALF) % HALF, lo |-> n % HALF]

U32Dec(x) ==
    IF x.lo > 0 THEN [hi |-> x.hi, lo |-> x.lo - 1]
    ELSE [hi |-> (x.hi + HALF - 1) % HALF, lo |-> HALF - 1]

U32Lt(x, y) == x.hi < y.hi \/ (x.hi = y.hi /\ x.lo < y.lo)

---------------------------------------------------------------------------
(* Mastermind::guess, the scoring passes *)

NoMarks == [k \in Slots |-> FALSE]

\* Statement order: Then(e, F) is F applied to the value of e, with e
\* evaluated once before F.
Then(e, F(_)) == CHOOSE y \in {F(x) : x \in {e}} : TRUE

\* The loop "Find black keys", from position i on
RECURSIVE BlackPass(_, _, _, _)
BlackPass(pegs, hidden, i, st) ==
    IF i > PEG_SLOTS THEN st
    ELSE Then(IF pegs[i] = hidden[i]
              THEN [st EXCEPT !.black_keys = @ + 1, !.black_matched[i] = TRUE]
              ELSE st,
              LAMBDA x : BlackPass(pegs, hidden, i + 1, x))

\* InnerScan without the break after a match
RECURSIVE InnerScanNoBreak(_, _, _, _, _)
InnerScanNoBreak(pegs, hidden, i, j, st) ==
    IF j > PEG_SLOTS THEN st
    ELSE IF st.black_matched[j] \/ st.white_matched[j]
         THEN InnerScanNoBreak(pegs, hidden, i, j + 1, st)
    ELSE Then(IF pegs[i] = hidden[j]
              THEN [st EXCEPT !.white_keys = @ + 1, !.white_matched[j] = TRUE,
                              !.white_from[i] = @ + 1]
              ELSE st,
              LAMBDA x : InnerScanNoBreak(pegs, hidden, i, j + 1, x))

\* InnerScan that does not skip the secret positions already used for a white key
RECURSIVE InnerScanReuse(_, _, _, _, _)
InnerScanReuse(pegs, hidden, i, j, st) ==
    IF j > PEG_SLOTS THEN st
    ELSE IF st.black_matched[j]
         THEN InnerScanReuse(pegs, hidden, i, j + 1, st)
    ELSE IF pegs[i] = hidden[j]
         THEN [st EXCEPT !.white_keys = @ + 1, !.white_matched[j] = TRUE,
                         !.white_from[i] = @ + 1]
         ELSE InnerScanReuse(pegs, hidden, i, j + 1, st)

\* The inner loop of "Find white keys", for guess position i from secret
\* position j on.  white_from[i] counts the white keys that guess position i
\* has produced; the source keeps no such array.
RECURSIVE InnerScan(_, _, _, _, _)
InnerScan(pegs, hidden, i, j, st) ==
    IF j > PEG_SLOTS THEN st
    ELSE IF st.black_matched[j] \/ st.white_matched[j]
         THEN InnerScan(pegs, hidden, i, j + 1, st)
    ELSE IF pegs[i] = hidden[j]
         THEN [st EXCEPT !.white_keys = @ + 1, !.white_matched[j] = TRUE,
                         !.white_from[i] = @ + 1]
         ELSE InnerScan(pegs, hidden, i, j + 1, st)

\* WhitePass that does not skip the guess positions counted black
RECURSIVE WhitePassNoSkip(_, _, _, _)
WhitePassNoSkip(pegs, hidden, i, st) ==
    IF i > PEG_SLOTS THEN st
    ELSE Then(InnerScan(pegs, hidden, i, 1, st),
              LAMBDA x : WhitePassNoSkip(pegs, hidden, i + 1, x))

\* The outer loop of "Find white keys", from guess position i on
RECURSIVE WhitePass(_, _, _, _)
WhitePass(pegs, hidden, i, st) ==
    IF i > PEG_SLOTS THEN st
    ELSE Then(IF st.black_matched[i] THEN st ELSE InnerScan(pegs, hidden, i, 1, st),
              LAMBDA x : WhitePass(pegs, hidden, i + 1, x))

ScoreInit ==
    [black_keys |-> 0, white_keys |-> 0, black_matched |-> NoMarks,
     white_matched |-> NoMarks, white_from |-> [k \in Slots |-> 0]]

\* The values of the locals of guess when it returns
Score(pegs, hidden) ==
    Then(BlackPass(pegs, hidden, 1, ScoreInit),
         LAMBDA x : WhitePass(pegs, hidden, 1, x))

\* GuessResult that is off by one
GuessResultOffByOne(black) == black >= PEG_SLOTS - 1

\* return (black_keys == PEG_SLOTS) ? true : false
GuessResult(black) == black = PEG_SLOTS

---------------------------------------------------------------------------
(* The Mastermind engine *)

NoOp == [name |-> "none", ret |-> FALSE]

\* The values the static distribution u(0, b) can return.  The model only
\* constructs engines whose first colour count is below 2^16.
DrawRange(b) == IF b.hi = 0 THEN 0..b.lo ELSE {}

\* Mastermind::Mastermind(colors, tries).  The distribution u is a
\* function-local static: its bound is computed from m_peg_colors by the first
\* construction of the process only.
MastermindCtor(colors, tries) ==
    LET b == IF u_init THEN u_b ELSE U32Dec(colors) IN
    /\ u_init' = TRUE
    /\ u_b' = b
    /\ m_peg_colors' = colors
    /\ m_tries_allowed' = tries
    /\ m_hidden_pegs' \in [Slots -> DrawRange(b)]

\* MastermindGuess that counts a turn only when the guess is wrong
MastermindGuessDecOnLoss(pegs) ==
    \E s \in {Score(pegs, m_hidden_pegs)} :
    /\ m_tries_allowed' = IF GuessResult(s.black_keys) THEN m_tries_allowed
                          ELSE U32Dec(m_tries_allowed)
    /\ black_keys' = s.black_keys
    /\ white_keys' = s.white_keys
    /\ marks' = [black_matched |-> s.black_matched,
                 white_matched |-> s.white_matched,
                 white_from |-> s.white_from]
    /\ op' = [name |-> "guess", ret |-> GuessResult(s.black_keys)]
    /\ UNCHANGED <<m_hidden_pegs, m_peg_colors, u_init, u_b>>

\* Mastermind::guess(pegs, black_keys, white_keys)
MastermindGuess(pegs) ==
    \E s \in {Score(pegs, m_hidden_pegs)} :
    /\ m_tries_allowed' = U32Dec(m_tries_allowed)
    /\ black_keys' = s.black_keys
    /\ white_keys' = s.white_keys
    /\ marks' = [black_matched |-> s.black_matched,
                 white_matched |-> s.white_matched,
                 white_from |-> s.white_from]
    /\ op' = [name |-> "guess", ret |-> GuessResult(s.black_keys)]
    /\ UNCHANGED <<m_hidden_pegs, m_peg_colors, u_init, u_b>>

\* Mastermind::turnsLeft()
MastermindTurnsLeft ==
    /\ op' = [name |-> "turnsLeft", ret |-> m_tries_allowed]
    /\ UNCHANGED <<m_hidden_pegs, m_peg_colors, m_tries_allowed, u_init, u_b>>

\* MastermindPeer with the assignment of its loop reversed
MastermindPeerReversed ==
    /\ m_hidden_pegs' = [k \in Slots |-> guess[k]]
    /\ guess' = guess
    /\ op' = [name |-> "peer", ret |-> FALSE]
    /\ UNCHANGED <<m_peg_colors, m_tries_allowed, u_init, u_b>>

\* Mastermind::peer(pegs), called with main's array guess
MastermindPeer ==
    /\ guess' = [k \in Slots |-> m_hidden_pegs[k]]
    /\ op' = [name |-> "peer", ret |-> FALSE]
    /\ UNCHANGED <<m_hidden_pegs, m_peg_colors, m_tries_allowed, u_init, u_b>>

---------------------------------------------------------------------------
(* A caller that uses the public interface of the class in any order *)

MaxCalls == 2                       \* guess calls per engine
ApiColors == {MIN_PEG_COLORS, MIN_PEG_COLORS + 1}
ApiTries == {1, MIN_TRIES_ALLOWED}
ApiPegVals == {0, MIN_PEG_COLORS}   \* a colour of every palette, and one outside the smallest

NoPegs == [k \in Slots |-> 0]
NoScoreMarks ==
    [black_matched |-> NoMarks, white_matched |-> NoMarks,
     white_from |-> [k \in Slots |-> 0]]

\* The caller passes fresh arguments to every call: the results of an earlier
\* guess are out of scope once another call is made.
ApiNoResults ==
    /\ guess' = NoPegs
    /\ black_keys' = 0
    /\ white_keys' = 0
    /\ marks' = NoScoreMarks

Init ==
    /\ pc = "api"
    /\ argv = <<>>
    /\ peg_colors = U32(DEFAULT_COLORS)
    /\ tries_allowed = U32(DEFAULT_TRIES)
    /\ guess = NoPegs
    /\ black_keys = 0
    /\ white_keys = 0
    /\ cin_ok = TRUE
    /\ u_init = FALSE
    /\ u_b = U32(0)
    /\ m_hidden_pegs = NoPegs
    /\ m_peg_colors = U32(0)
    /\ m_tries_allowed = U32(0)
    /\ marks = NoScoreMarks
    /\ op = NoOp
    /\ calls = 0
    /\ out = <<>>
    /\ matched = FALSE

ApiConstruct ==
    /\ pc = "api"
    /\ \E c \in ApiColors, t \in ApiTries : MastermindCtor(U32(c), U32(t))
    /\ op' = [name |-> "construct", ret |-> FALSE]
    /\ calls' = 0
    /\ matched' = FALSE
    /\ ApiNoResults
    /\ UNCHANGED <<pc, argv, peg_colors, tries_allowed, cin_ok, out>>

ApiGuess ==
    /\ pc = "api"
    /\ op.name # "none"
    /\ calls < MaxCalls
    /\ \E pegs \in [Slots -> ApiPegVals] :
          /\ guess' = pegs
          /\ matched' = (matched \/ pegs = m_hidden_pegs)
          /\ MastermindGuess(pegs)
    /\ calls' = calls + 1
    /\ UNCHANGED <<pc, argv, peg_colors, tries_allowed, cin_ok, out>>

ApiTurnsLeft ==
    /\ pc = "api"
    /\ op.name # "none"
    /\ MastermindTurnsLeft
    /\ ApiNoResults
    /\ UNCHANGED <<pc, argv, peg_colors, tries_allowed, cin_ok, calls, out, matched>>

ApiPeer ==
    /\ pc = "api"
    /\ op.name # "none"
    /\ MastermindPeer
    /\ black_keys' = 0
    /\ white_keys' = 0
    /\ marks' = NoScoreMarks
    /\ UNCHANGED <<pc, argv, peg_colors, tries_allowed, cin_ok, calls, out, matched>>

Next == ApiConstruct \/ ApiGuess \/ ApiTurnsLeft \/ ApiPeer

Spec == Init /\ [][Next]_vars

---------------------------------------------------------------------------
(* Scoring alone: one engine holding any secret over 0..MaxVal, one guess *)

InitScore ==
    /\ pc = "api"
    /\ argv = <<>>
    /\ peg_colors = U32(MaxVal + 1)
    /\ tries_allowed = U32(DEFAULT_TRIES)
    /\ guess = NoPegs
    /\ black_keys = 0
    /\ white_keys = 0
    /\ cin_ok = TRUE
    /\ u_init = TRUE
    /\ u_b = U32(MaxVal)
    /\ m_hidden_pegs \in [Slots -> DrawRange(u_b)]
    /\ m_peg_colors = U32(MaxVal + 1)
    /\ m_tries_allowed = U32(DEFAULT_TRIES)
    /\ marks = NoScoreMarks
    /\ op = [name |-> "construct", ret |-> FALSE]
    /\ calls = 0
    /\ out = <<>>
    /\ matched = FALSE

ScoreGuess ==
    /\ pc = "api"
    /\ calls = 0
    /\ \E pegs \in [Slots -> 0..MaxVal] :
          /\ guess' = pegs
          /\ matched' = (matched \/ pegs = m_hidden_pegs)
          /\ MastermindGuess(pegs)
    /\ calls' = 1
    /\ UNCHANGED <<pc, argv, peg_colors, tries_allowed, cin_ok, out>>

NextScore == ScoreGuess

SpecScore == InitScore /\ [][NextScore]_vars

---------------------------------------------------------------------------
(* main: the command line *)

FlagC == <<"-", "c">>
FlagT == <<"-", "t">>
FlagH == <<"-", "h">>

\* strncmp(tok, flag, 2) == 0 for a two-character flag
Strncmp2Eq(tok, flag) == Len(tok) >= 2 /\ tok[1] = flag[1] /\ tok[2] = flag[2]

Digits == {"0", "1", "2", "3", "4", "5", "6", "7", "8", "9"}

DigitVal(ch) ==
    CASE ch = "0" -> 0 [] ch = "1" -> 1 [] ch = "2" -> 2 [] ch = "3" -> 3
      [] ch = "4" -> 4 [] ch = "5" -> 5 [] ch = "6" -> 6 [] ch = "7" -> 7
      [] ch = "8" -> 8 [] ch = "9" -> 9

RECURSIVE AtoiDigits(_, _, _)
AtoiDigits(tok, k, acc) ==
    IF k > Len(tok) \/ tok[k] \notin Digits THEN acc
    ELSE AtoiDigits(tok, k + 1, acc * 10 + DigitVal(tok[k]))

\* atoi: an optional sign, then the leading decimal digits; 0 when there are none
Atoi(tok) ==
    IF Len(tok) = 0 THEN 0
    ELSE IF tok[1] = "-" THEN 0 - AtoiDigits(tok, 2, 0)
    ELSE IF tok[1] = "+" THEN AtoiDigits(tok, 2, 0)
    ELSE AtoiDigits(tok, 1, 0)

\* The loop over argv[1..argc-1]; the int returned by atoi is converted to uint32_t
RECURSIVE ParseLoop(_, _, _, _)
ParseLoop(args, i, c, t) ==
    IF i > Len(args) THEN [peg_colors |-> c, tries_allowed |-> t]
    ELSE IF Strncmp2Eq(args[i], FlagC)
         THEN ParseLoop(args, i + 2, U32(Atoi(args[i + 1])), t)
    ELSE IF Strncmp2Eq(args[i], FlagT)
         THEN ParseLoop(args, i + 2, c, U32(Atoi(args[i + 1])))
    ELSE ParseLoop(args, i + 1, c, t)

\* argc counts argv[0]
Argc(args) == Len(args) + 1

ClampColors(c) ==
    LET c1 == IF U32Lt(U32(MAX_PEG_COLORS), c) THEN U32(MAX_PEG_COLORS) ELSE c IN
    IF U32Lt(c1, U32(MIN_PEG_COLORS)) THEN U32(MIN_PEG_COLORS) ELSE c1

ClampTries(t) ==
    IF U32Lt(t, U32(MIN_TRIES_ALLOWED)) THEN U32(MIN_TRIES_ALLOWED) ELSE t

InitMain ==
    /\ pc = "start"
    /\ peg_colors = U32(DEFAULT_COLORS)
    /\ tries_allowed = U32(DEFAULT_TRIES)
    /\ guess = NoPegs
    /\ black_keys = 0
    /\ white_keys = 0
    /\ cin_ok = TRUE
    /\ u_init = FALSE
    /\ u_b = U32(0)
    /\ m_hidden_pegs = NoPegs
    /\ m_peg_colors = U32(0)
    /\ m_tries_allowed = U32(0)
    /\ marks = NoScoreMarks
    /\ op = NoOp
    /\ calls = 0
    /\ out = <<>>
    /\ matched = FALSE

Usage ==
    /\ pc = "start"
    /\ Argc(argv) = 2
    /\ Strncmp2Eq(argv[1], FlagH)
    /\ pc' = "usage"
    /\ UNCHANGED <<argv, peg_colors, tries_allowed, guess, black_keys, white_keys,
                   cin_ok, u_init, u_b, m_hidden_pegs, m_peg_colors,
                   m_tries_allowed, marks, op, calls, out, matched>>

ParseArgs ==
    /\ pc = "start"
    /\ ~(Argc(argv) = 2 /\ Strncmp2Eq(argv[1], FlagH))
    /\ LET r == IF Argc(argv) = 5 \/ Argc(argv) = 3
                THEN ParseLoop(argv, 1, U32(DEFAULT_COLORS), U32(DEFAULT_TRIES))
                ELSE [peg_colors |-> U32(DEFAULT_COLORS),
                      tries_allowed |-> U32(DEFAULT_TRIES)]
       IN /\ peg_colors' = r.peg_colors
          /\ tries_allowed' = r.tries_allowed
    /\ pc' = "parsed"
    /\ UNCHANGED <<argv, guess, black_keys, white_keys, cin_ok, u_init, u_b,
                   m_hidden_pegs, m_peg_colors, m_tries_allowed, marks, op,
                   calls, out, matched>>

Clamp ==
    /\ pc = "parsed"
    /\ peg_colors' = ClampColors(peg_colors)
    /\ tries_allowed' = ClampTries(tries_allowed)
    /\ pc' = "clamped"
    /\ UNCHANGED <<argv, guess, black_keys, white_keys, cin_ok, u_init, u_b,
                   m_hidden_pegs, m_peg_colors, m_tries_allowed, marks, op,
                   calls, out, matched>>

---------------------------------------------------------------------------
(* main: the game loop *)

\* Values typed at the prompt: the colours of the smallest palette
ShellPegVals == 0..(MIN_PEG_COLORS - 1)

\* The four extractions cin >> guess[i] of one turn.  A successful extraction
\* stores the value read.  An extraction that finds no number stores 0 and
\* sets failbit; one that finds the end of input, or a stream that has already
\* failed, leaves guess[i] as it was.  failbit is never cleared.
RECURSIVE ReadPegs(_, _, _)
ReadPegs(g, ok, i) ==
    IF i > PEG_SLOTS THEN {[g |-> g, ok |-> ok]}
    ELSE IF ~ok THEN ReadPegs(g, FALSE, i + 1)
    ELSE UNION {ReadPegs([g EXCEPT ![i] = v], TRUE, i + 1) : v \in ShellPegVals}
         \cup ReadPegs([g EXCEPT ![i] = 0], FALSE, i + 1)
         \cup ReadPegs(g, FALSE, i + 1)

WinLine == [msg |-> "Congratulations! You win!", pegs |-> NoPegs]
LostLine(pegs) == [msg |-> "Sorry! You lost!", pegs |-> pegs]

\* LoopCond written >= 0, which holds of every unsigned value
LoopCondAlways == ~U32Lt(m_tries_allowed, U32(0))

\* while (game.turnsLeft() > 0)
LoopCond == U32Lt(U32(0), m_tries_allowed)

StartGame ==
    /\ pc = "clamped"
    /\ MastermindCtor(peg_colors, tries_allowed)
    /\ op' = [name |-> "construct", ret |-> FALSE]
    /\ guess' = NoPegs
    /\ black_keys' = 0
    /\ white_keys' = 0
    /\ calls' = 0
    /\ pc' = "loop"
    /\ UNCHANGED <<argv, peg_colors, tries_allowed, cin_ok, marks, out, matched>>

\* Turn without the return after the win line
TurnNoReturn ==
    /\ pc = "loop"
    /\ LoopCond
    /\ \E r \in ReadPegs(guess, cin_ok, 1) :
          /\ guess' = r.g
          /\ cin_ok' = r.ok
          /\ matched' = (matched \/ r.g = m_hidden_pegs)
          /\ MastermindGuess(r.g)
    /\ calls' = calls + 1
    /\ out' = IF op'.ret THEN Append(out, WinLine) ELSE out
    /\ pc' = "loop"
    /\ UNCHANGED <<argv, peg_colors, tries_allowed>>

\* One turn of the loop: the prompt, four extractions, the guess call, the result
Turn ==
    /\ pc = "loop"
    /\ LoopCond
    /\ \E r \in ReadPegs(guess, cin_ok, 1) :
          /\ guess' = r.g
          /\ cin_ok' = r.ok
          /\ matched' = (matched \/ r.g = m_hidden_pegs)
          /\ MastermindGuess(r.g)
    /\ calls' = calls + 1
    /\ IF op'.ret
       THEN /\ out' = Append(out, WinLine)
            /\ pc' = "won"
       ELSE /\ out' = out
            /\ pc' = "loop"
    /\ UNCHANGED <<argv, peg_colors, tries_allowed>>

Lose ==
    /\ pc = "loop"
    /\ ~LoopCond
    /\ MastermindPeer
    /\ out' = Append(out, LostLine(guess'))
    /\ pc' = "lost"
    /\ UNCHANGED <<argv, peg_colors, tries_allowed, black_keys, white_keys,
                   cin_ok, marks, calls, matched>>

---------------------------------------------------------------------------
(* The command line alone, over signed numerals of up to MaxDigits digits *)

MaxDigits == 2
NumeralDigits == {"0", "1", "2", "9"}

RECURSIVE DigitStrings(_)
DigitStrings(n) ==
    IF n = 0 THEN {<<>>}
    ELSE {<<d>> \o w : d \in NumeralDigits, w \in DigitStrings(n - 1)}

Unsigned == UNION {DigitStrings(n) : n \in 1..MaxDigits}
Numerals == Unsigned \cup {<<"-">> \o w : w \in Unsigned}

ArgvSet ==
    {<<>>, <<FlagH>>}
    \cup {<<FlagC, n>> : n \in Numerals}
    \cup {<<FlagT, n>> : n \in Numerals}
    \cup {<<FlagC, n, FlagT, m>> : n \in Numerals, m \in Numerals}
    \cup {<<FlagT, m, FlagC, n>> : n \in Numerals, m \in Numerals}

InitArgs == argv \in ArgvSet /\ InitMain

NextArgs == Usage \/ ParseArgs \/ Clamp

SpecArgs == InitArgs /\ [][NextArgs]_vars

---------------------------------------------------------------------------
(* The whole of main, for games small enough to play out *)

MaxShellTries == 3
ShellTries == {<<d>> : d \in {e \in Digits : DigitVal(e) \in 1..MaxShellTries}}

ShellArgvSet ==
    {<<FlagH>>} \cup {<<FlagC, <<"2">>, FlagT, m>> : m \in ShellTries}

InitShell == argv \in ShellArgvSet /\ InitMain

NextShell == Usage \/ ParseArgs \/ Clamp \/ StartGame \/ Turn \/ Lose

\* A sequential program takes its next step; a read returns once input
\* arrives, ends or fails.
SpecShell == InitShell /\ [][NextShell]_vars /\ WF_vars(NextShell)

---------------------------------------------------------------------------
(* Helpers of the properties *)

Scored == op.name = "guess"

Marked(a) == {k \in Slots : a[k]}

RECURSIVE SumOver(_, _)
SumOver(f, S) ==
    IF S = {} THEN 0
    ELSE LET x == CHOOSE y \in S : TRUE IN f[x] + SumOver(f, S \ {x})

Count(pegs, c) == Cardinality({k \in Slots : pegs[k] = c})

Min(a, b) == IF a <= b THEN a ELSE b

ColoursOf(pegs) == {pegs[k] : k \in Slots}

\* sum over every colour c of min(number of c in a, number of c in b)
CommonColours(a, b) ==
    LET cs == ColoursOf(a) \cup ColoursOf(b) IN
    SumOver([c \in cs |-> Min(Count(a, c), Count(b, c))], cs)

U32Zero == [hi |-> 0, lo |-> 0]
U32Max == [hi |-> HALF - 1, lo |-> HALF - 1]

\* the value of y is the value of x minus one, as integers
OneLower(x, y) ==
    \/ y.hi = x.hi /\ y.lo + 1 = x.lo
    \/ y.hi + 1 = x.hi /\ y.lo = HALF - 1 /\ x.lo = 0

\* the uint32_t x holds the integer n, for 0 <= n < 2^16
Holds(x, n) == x.hi = 0 /\ x.lo = n

---------------------------------------------------------------------------
(* Properties of the scoring, checked under SpecScore *)

\* C1: after guess, blackKeys + whiteKeys <= 4; no secret position is marked
\* both black and white; a guess position counted black yields no white key;
\* a guess position yields at most one white key; every white key uses a
\* secret position of its own, and every black key a position of its own.
C1_NoDoubleCount ==
    Scored =>
        /\ black_keys + white_keys <= PEG_SLOTS
        /\ Marked(marks.black_matched) \cap Marked(marks.white_matched) = {}
        /\ \A k \in Slots : marks.black_matched[k] => marks.white_from[k] = 0
        /\ \A k \in Slots : marks.white_from[k] <= 1
        /\ white_keys = Cardinality(Marked(marks.white_matched))
        /\ white_keys = SumOver(marks.white_from, Slots)
        /\ black_keys = Cardinality(Marked(marks.black_matched))

C1_Witness ==
    /\ Scored
    /\ black_keys = 1
    /\ white_keys = 2
    /\ Cardinality(ColoursOf(guess)) = 2
    /\ Cardinality(ColoursOf(m_hidden_pegs)) = 2

\* C2: guess returns true iff blackKeys = 4, which holds iff the guess equals
\* the secret at every position; whiteKeys is then 0.
C2_WinIffEqual ==
    Scored =>
        /\ op.ret <=> black_keys = PEG_SLOTS
        /\ black_keys = PEG_SLOTS <=> (\A k \in Slots : guess[k] = m_hidden_pegs[k])
        /\ black_keys = PEG_SLOTS => white_keys = 0

C2_Witness ==
    /\ Scored
    /\ op.ret
    /\ guess = <<0, 1, 2, 3>>
    /\ m_hidden_pegs = <<0, 1, 2, 3>>
    /\ white_keys = 0

\* C3: scoring the secret as a guess against the guess as the secret gives
\* the same pair (blackKeys, whiteKeys).
C3_Symmetric ==
    Scored =>
        LET r == Score(m_hidden_pegs, guess) IN
        /\ r.black_keys = black_keys
        /\ r.white_keys = white_keys

C3_Witness ==
    /\ Scored
    /\ m_hidden_pegs = <<1, 1, 2, 3>>
    /\ guess = <<2, 1, 1, 1>>
    /\ black_keys = 1
    /\ white_keys = 2

\* C10: whiteKeys is the number of colour matches, sum over the colours of
\* min(count in guess, count in secret), minus blackKeys.
C10_MaxMatching ==
    Scored => white_keys = CommonColours(guess, m_hidden_pegs) - black_keys

C10_Witness ==
    /\ Scored
    /\ m_hidden_pegs = <<1, 1, 2, 2>>
    /\ guess = <<1, 2, 1, 2>>
    /\ black_keys = 2
    /\ white_keys = 2

---------------------------------------------------------------------------
(* Properties of the engine, checked under Spec *)

\* C4 as stated: every guess call leaves turnsLeft() exactly 1 lower,
\* a call made at 0 included.
C4_ExactlyOneLower ==
    [][op'.name = "guess" => OneLower(m_tries_allowed, m_tries_allowed')]_vars

\* C4 as amended: every guess call, won or not, leaves turnsLeft() at the
\* old value minus 1 modulo 2^32: exactly 1 lower when the old value was
\* above 0, and 4294967295 when it was 0.
C4_DecrementMod ==
    [][op'.name = "guess" =>
         IF m_tries_allowed = U32Zero
         THEN m_tries_allowed' = U32Max
         ELSE OneLower(m_tries_allowed, m_tries_allowed')]_vars

C4_Witness ==
    /\ Scored
    /\ op.ret
    /\ calls = 2
    /\ m_tries_allowed = U32Max

\* C5: the pegs of every engine are below its colour count, and a guess
\* value at or above the colour count equals no hidden peg.
C5_PegsInRange ==
    op.name # "none" =>
        /\ \A k \in Slots : U32Lt(U32(m_hidden_pegs[k]), m_peg_colors)
        /\ Scored =>
             \A i \in Slots : ~U32Lt(U32(guess[i]), m_peg_colors) =>
                 \A j \in Slots : guess[i] # m_hidden_pegs[j]

\* C9: guess, turnsLeft and peer leave the hidden pegs and the colour count
\* as they were; peer hands out the hidden pegs; turnsLeft and peer leave the
\* tries counter as it was and turnsLeft returns it.
C9_Frame ==
    [][op'.name \in {"guess", "turnsLeft", "peer"} =>
         /\ m_hidden_pegs' = m_hidden_pegs
         /\ m_peg_colors' = m_peg_colors
         /\ <<u_init, u_b>>' = <<u_init, u_b>>
         /\ op'.name = "peer" =>
              guess' = m_hidden_pegs /\ m_tries_allowed' = m_tries_allowed
         /\ op'.name = "turnsLeft" =>
              op'.ret = m_tries_allowed /\ m_tries_allowed' = m_tries_allowed]_vars

C9_Witness ==
    /\ op.name = "peer"
    /\ calls = 2
    /\ guess = m_hidden_pegs
    /\ guess = <<2, 0, 1, 2>>

---------------------------------------------------------------------------
(* Properties of the command line, checked under SpecArgs *)

\* the integer written after flag, or dflt when the flag is absent
Given(flag, dflt) ==
    IF Len(argv) >= 2 /\ argv[1] = flag THEN Atoi(argv[2])
    ELSE IF Len(argv) >= 4 /\ argv[3] = flag THEN Atoi(argv[4])
    ELSE dflt

\* C8: the configuration has colorCount in [2, 10] and maxTries equal to
\* the value given to -t when that is >= 2, and 2 when it is below 2.
C8_Clamped ==
    pc = "clamped" =>
        /\ ~U32Lt(peg_colors, U32(MIN_PEG_COLORS))
        /\ ~U32Lt(U32(MAX_PEG_COLORS), peg_colors)
        /\ LET v == Given(FlagT, DEFAULT_TRIES) IN
           IF v >= 2 THEN tries_allowed = U32(v)
           ELSE Holds(tries_allowed, 2)

---------------------------------------------------------------------------
(* Properties of the game loop, checked under SpecShell *)

InGame == pc \in {"loop", "won", "lost"}
Over == pc \in {"won", "lost", "usage"}

\* C6: the loop ends; the guess calls made and the turns left add up to
\* maxTries, so at most maxTries calls are made and none at 0 turns left;
\* the loop is left only with a winning guess or with 0 turns left, also
\* after the input has failed.
C6_Terminates ==
    /\ [](InGame =>
            /\ m_tries_allowed.hi = 0
            /\ tries_allowed.hi = 0
            /\ calls + m_tries_allowed.lo = tries_allowed.lo
            /\ pc = "won" => Scored /\ op.ret
            /\ pc = "lost" => m_tries_allowed = U32Zero)
    /\ [][op'.name = "guess" => m_tries_allowed # U32Zero]_vars
    /\ <>Over

C6_Witness ==
    /\ pc = "lost"
    /\ ~cin_ok
    /\ calls = 3
    /\ Holds(tries_allowed, 3)

\* C7: the win line is written iff a scored guess equalled the secret, and
\* then it is the only end line, the guess just scored is that guess and the
\* program has ended; the lost line, with the secret, is written iff
\* maxTries guesses were scored and none equalled the secret, at 0 turns left.
C7_OneEndMessage ==
    /\ [](InGame =>
            /\ pc = "loop" => out = <<>> /\ ~matched
            /\ pc = "won" =>
                 /\ out = <<WinLine>>
                 /\ matched
                 /\ guess = m_hidden_pegs
                 /\ calls <= tries_allowed.lo
            /\ pc = "lost" =>
                 /\ out = <<LostLine(m_hidden_pegs)>>
                 /\ ~matched
                 /\ calls = tries_allowed.lo
                 /\ m_tries_allowed = U32Zero)
    /\ [][(pc = "won" \/ pc = "lost") => (vars' = vars)]_vars

C7_Witness ==
    /\ pc = "won"
    /\ calls = 2
    /\ Holds(tries_allowed, 2)
    /\ m_tries_allowed = U32Zero
    /\ out = <<WinLine>>

====
